---- MODULE Spec2Model ----
(***************************************************************************)
(* A model of the logging facade of package log (zap.go, log.go,           *)
(* config.go): construction of a zap logger from a Config, the            *)
(* process-wide default instance, derivation of child loggers, emission    *)
(* and key-value coercion.                                                  *)
(*                                                                          *)
(* The wrapped engines (go.uber.org/zap, lumberjack) are modelled by their *)
(* documented contracts at the places the facade calls them: a zap.Logger  *)
(* is an immutable value (cores, name, bound fields, caller skip), a sink  *)
(* is the path lumberjack was given, and a write to a sink succeeds.       *)
(***************************************************************************)
EXTENDS Integers, Sequences, FiniteSets, TLC

VARIABLES
    logger,      \* var logger Logger; 0 is nil, else an index of heap
    heap,        \* every Logger value handed to the user (a *baseLogger)
    origin,      \* for each Logger of heap, the API call that made it (history)
    writes,      \* the records written to the sinks, in order
    hist,        \* the emissions made, in order (history)
    ret,         \* the last API call and what it returned (history)
    opts,        \* the caller's Config object after the last New(&cfg)
    env,         \* the value of the environment variable LOG_DIR
    newCalled,   \* the user has called New (history)
    lastNew,     \* the Logger the most recent user call of New returned (history)
    nDefault,    \* how many times newDefaultLogger has run (history)
    terminated,  \* a Fatal emission has ended the process
    pc,          \* concurrent callers: each goroutine's position
    loc,         \* concurrent callers: each goroutine's local Logger value
    pin,         \* pure-function checks: the input
    pout         \* pure-function checks: the output

vars == <<logger, heap, origin, writes, hist, ret, opts, env, newCalled, lastNew,
          nDefault, terminated, pc, loc, pin, pout>>

(***************************************************************************)
(* Bounds of the model.                                                     *)
(***************************************************************************)
MaxCalls == 3
RouteMaxCalls == 3
CtxMaxCalls == 3
TraceMaxCalls == 3
MaxArgs == 4
StackAbove == 2
NumGoroutines == 2

(***************************************************************************)
(* Severities, with zapcore's numbering.                                    *)
(***************************************************************************)
DebugLevel == -1
InfoLevel == 0
WarnLevel == 1
ErrorLevel == 2
FatalLevel == 5

\* The severities the facade can emit at (Debug(f) .. Fatal(f)).
EmitLevels == {DebugLevel, InfoLevel, WarnLevel, ErrorLevel, FatalLevel}

(***************************************************************************)
(* Strings whose characters matter are sequences of one-character strings. *)
(***************************************************************************)
UpperChars == <<"A","B","C","D","E","F","G","H","I","J","K","L","M",
                "N","O","P","Q","R","S","T","U","V","W","X","Y","Z">>
LowerChars == <<"a","b","c","d","e","f","g","h","i","j","k","l","m",
                "n","o","p","q","r","s","t","u","v","w","x","y","z">>

\* The lower-case letter of every upper-case letter.
LowerOf ==
    [c \in {UpperChars[i] : i \in DOMAIN UpperChars} |->
        LowerChars[CHOOSE i \in DOMAIN UpperChars : UpperChars[i] = c]]

ToLowerChar(c) == IF c \in DOMAIN LowerOf THEN LowerOf[c] ELSE c

\* strings.ToLower
ToLower(s) == [i \in DOMAIN s |-> ToLowerChar(s[i])]

S_debug == <<"d","e","b","u","g">>
S_info == <<"i","n","f","o">>
S_warn == <<"w","a","r","n">>
S_warning == <<"w","a","r","n","i","n","g">>
S_error == <<"e","r","r","o","r">>
S_fatal == <<"f","a","t","a","l">>

\* logLevel without the case folding.
logLevelCaseSensitive(level) ==
    CASE level = S_debug -> DebugLevel
      [] level = S_info -> InfoLevel
      [] level = S_warn \/ level = S_warning -> WarnLevel
      [] level = S_error -> ErrorLevel
      [] level = S_fatal -> FatalLevel
      [] OTHER -> DebugLevel

\* logLevel: string logger level to zap logger level, default is debug level.
logLevel(level) ==
    LET l == ToLower(level) IN
    CASE l = S_debug -> DebugLevel
      [] l = S_info -> InfoLevel
      [] l = S_warn \/ l = S_warning -> WarnLevel
      [] l = S_error -> ErrorLevel
      [] l = S_fatal -> FatalLevel
      [] OTHER -> DebugLevel

(***************************************************************************)
(* Key-value coercion.  An argument is a tagged value: a string, an int, a *)
(* strongly-typed zap.Field, or a slice (a []interface{} passed as one     *)
(* argument).                                                               *)
(***************************************************************************)
Str(s) == [t |-> "string", v |-> s]
Int_(s) == [t |-> "int", v |-> s]
FieldArg(s) == [t |-> "field", v |-> s]
Slice(s) == [t |-> "slice", v |-> s]

\* zap.zapAny(key, val): a field of the key and the value with its dynamic type.
zapAny(key, val) == [key |-> key, val |-> val]

RECURSIVE handleFieldsLoop(_, _, _)
\* The for loop of handleFields; i is the 1-based position of the next key.
handleFieldsLoop(args, i, fields) ==
    IF i > Len(args) THEN fields
    ELSE IF args[i].t = "field" THEN fields
    ELSE IF i = Len(args) THEN fields
    ELSE IF args[i].t # "string" THEN fields
    ELSE handleFieldsLoop(args, i + 2, Append(fields, zapAny(args[i].v, args[i + 1])))

RECURSIVE handleFieldsSkipLoop(_, _, _)
\* A loop that skips a malformed pair and goes on instead of stopping.
handleFieldsSkipLoop(args, i, fields) ==
    IF i >= Len(args) THEN fields
    ELSE IF args[i].t # "string" THEN handleFieldsSkipLoop(args, i + 2, fields)
    ELSE handleFieldsSkipLoop(args, i + 2, Append(fields, zapAny(args[i].v, args[i + 1])))

handleFieldsSkipping(args, additional) ==
    IF Len(args) = 0 THEN additional
    ELSE handleFieldsSkipLoop(args, 1, <<>>) \o additional

\* handleFields converts key value pairs to Zap fields.
handleFields(args, additional) ==
    IF Len(args) = 0 THEN additional
    ELSE handleFieldsLoop(args, 1, <<>>) \o additional

(***************************************************************************)
(* Construction of a zap logger from a Config.                              *)
(***************************************************************************)
\* filepath.Join of a directory and a file name: empty elements are ignored.
Join(dir, file) ==
    (IF dir = "" THEN <<>> ELSE <<dir>>) \o (IF file = "" THEN <<>> ELSE <<file>>)

FileSink(path) == [kind |-> "file", path |-> path]
Stdout == [kind |-> "stdout", path |-> <<>>]

\* zap.LevelEnablerFunc(lev == l), zap.LevelEnablerFunc(lev >= l), AtomicLevel
EnablerEq(l) == [kind |-> "eq", lvl |-> l]
EnablerGe(l) == [kind |-> "ge", lvl |-> l]
Enabled(en, lev) == IF en.kind = "eq" THEN lev = en.lvl ELSE lev >= en.lvl

\* newWriteSyncer, after its two defaulting steps: the lumberjack hook.
newWriteSyncerHook(o, fn) == [opts |-> o, ws |-> FileSink(Join(o.LogDir, fn))]

\* newWriteSyncer taking the directory from LOG_DIR whatever LogDir is.
newWriteSyncerAlwaysEnv(o, fileName, e) ==
    newWriteSyncerHook([o EXCEPT !.LogDir = e],
                       IF fileName = "" THEN o.LogFile ELSE fileName)

\* newWriteSyncer: the lumberjack hook's Filename, and the Config as it leaves it.
newWriteSyncer(o, fileName, e) ==
    newWriteSyncerHook(IF o.LogDir = "" THEN [o EXCEPT !.LogDir = e] ELSE o,
                       IF fileName = "" THEN o.LogFile ELSE fileName)

\* NewZapCore, once the write syncer w is made.
NewZapCoreOf(o, w, level) ==
    [opts |-> w.opts,
     core |-> [enc   |-> IF o.JsonEncode THEN "json" ELSE "console",
               sinks |-> IF o.Stdout THEN <<Stdout, w.ws>> ELSE <<w.ws>>,
               level |-> level]]

\* NewZapCore: encoder, write syncer(s) and level enabler of one core.
NewZapCore(o, fileName, level, e) ==
    NewZapCoreOf(o, newWriteSyncer(o, fileName, e), level)

\* cores = append(cores, c): the cores so far and the Config as it is now.
AppendCore(acc, c) == [opts |-> c.opts, cores |-> Append(acc.cores, c.core)]
AddCore(acc, fileName, level, e) ==
    AppendCore(acc, NewZapCore(acc.opts, fileName, level, e))
NoCores(o) == [opts |-> o, cores |-> <<>>]

\* The cores of split-by-severity mode with every enabler a threshold.
ZapCoresAllGe(o, e) ==
    AddCore(AddCore(AddCore(AddCore(NoCores(o),
        "debug.log", EnablerGe(DebugLevel), e),
        "info.log", EnablerGe(InfoLevel), e),
        "warn.log", EnablerGe(WarnLevel), e),
        "error.log", EnablerGe(ErrorLevel), e)

\* Zap, the FilePerLevel branch: debug.log info.log warn.log error.log
ZapCoresPerLevel(o, e) ==
    AddCore(AddCore(AddCore(AddCore(NoCores(o),
        "debug.log", EnablerEq(DebugLevel), e),
        "info.log", EnablerEq(InfoLevel), e),
        "warn.log", EnablerEq(WarnLevel), e),
        "error.log", EnablerGe(ErrorLevel), e)

\* The single core with the threshold one severity too high.
ZapCoresSingleStrict(o, e) ==
    AddCore(NoCores(o), o.LogFile, EnablerGe(logLevel(o.LogLevel) + 1), e)

\* Zap, the else branch: only one log file for all log level
ZapCoresSingle(o, e) ==
    AddCore(NoCores(o), o.LogFile, EnablerGe(logLevel(o.LogLevel)), e)

\* Zap, its last statement: zap.New(NewTee(cores...), AddCaller, AddCallerSkip(2), ...)
ZapNew(o, cores) ==
    [opts |-> o,
     l |-> [cores      |-> cores,
            name       |-> <<>>,
            fields     |-> <<>>,
            addCaller  |-> TRUE,
            callerSkip |-> 2,
            stack      |-> logLevel(o.StacktraceLevel)]]

\* Zap without the StacktraceLevel default.
ZapOfNoDefault(c) == ZapNew(c.opts, c.cores)

\* Zap, from the StacktraceLevel default on.
ZapOf(c) ==
    ZapNew(IF c.opts.StacktraceLevel = <<>>
           THEN [c.opts EXCEPT !.StacktraceLevel = S_error] ELSE c.opts,
           c.cores)

\* Zap init zap logger: the logger, and the Config as Zap leaves it.
Zap(o, e) ==
    ZapOf(IF o.FilePerLevel THEN ZapCoresPerLevel(o, e) ELSE ZapCoresSingle(o, e))

(***************************************************************************)
(* zap.Logger's derivations, each a clone of the receiver.                  *)
(***************************************************************************)
\* (*zap.Logger).Named: a new name segment (segments are joined by ".").
Named(l, s) == IF s = "" THEN l ELSE [l EXCEPT !.name = Append(@, s)]

\* (*zap.Logger).With: fields bound to every later entry.
With(l, fields) == [l EXCEPT !.fields = @ \o fields]

\* newLoggerWithExtraSkip allows zap logger with callstack skipping
newLoggerWithExtraSkip(l, callerSkip) == [l EXCEPT !.callerSkip = @ + callerSkip]

baseLogger_AddCallerSkip(b, callerSkip) == newLoggerWithExtraSkip(b, callerSkip)

baseLogger_WithName(b, name) == newLoggerWithExtraSkip(Named(b, name), -1)

baseLogger_WithValues(b, keysAndValues) ==
    newLoggerWithExtraSkip(With(b, handleFields(keysAndValues, <<>>)), -1)

\* The receiver's object reused for the child instead of a new one.
newBaseLoggerInPlace(h, recv, l) == Append([h EXCEPT ![recv] = l], l)

\* &baseLogger{...}: a new Logger object; the receiver recv is left alone.
newBaseLogger(h, recv, l) == Append(h, l)

\* WithContext with the receiver returned when the context holds no Logger.
baseLogger_WithContextSelf(b, g, ctx) ==
    IF ctx.kind = "logger" THEN ctx.l ELSE b

\* baseLogger.WithContext: the Logger under LoggerKey, else the global logger.
baseLogger_WithContext(b, g, ctx) ==
    IF ctx.kind = "nil" THEN g
    ELSE IF ctx.kind = "logger" THEN ctx.l
    ELSE g


(***************************************************************************)
(* Emission.  A call stack is listed from the innermost frame: the         *)
(* zap.Logger method, the baseLogger method, the package-level function    *)
(* when the call came through one, the user's call site, and the frames    *)
(* above it.  zap reports the frame callerSkip above the caller of its     *)
(* own method.                                                              *)
(***************************************************************************)
CallStack(via) ==
    <<"zap">> \o (IF via = "pkg" THEN <<"facade", "facade">> ELSE <<"facade">>)
              \o <<"site">> \o [i \in 1..StackAbove |-> "above"]

\* zap.AddCaller with the logger's callerSkip.
FrameAt(st, i) ==
    IF i < 1 THEN "zap" ELSE IF i > Len(st) THEN "undefined" ELSE st[i]
CallerFrame(skip, via) == FrameAt(CallStack(via), skip + 2)

\* What one core writes for an entry: one record per write syncer.
CoreWrites(core, rec, eid) ==
    [j \in 1..Len(core.sinks) |->
        [eid |-> eid, sink |-> core.sinks[j], rec |-> [rec EXCEPT !.enc = core.enc]]]

RECURSIVE TeeWrites(_, _, _, _)
\* zapcore.NewTee: every core whose enabler accepts the level writes the entry.
TeeWrites(cores, lev, rec, eid) ==
    IF cores = <<>> THEN <<>>
    ELSE (IF Enabled(Head(cores).level, lev)
          THEN CoreWrites(Head(cores), rec, eid) ELSE <<>>)
         \o TeeWrites(Tail(cores), lev, rec, eid)

\* baseLogger.Debug(f) .. Fatal(f): b.Logger.<Level>(msg, fields...)
baseLogger_Emit(b, lev, flds, via, eid) ==
    TeeWrites(b.cores, lev,
              [level  |-> lev,
               name   |-> b.name,
               fields |-> b.fields \o flds,
               caller |-> IF b.addCaller THEN CallerFrame(b.callerSkip, via) ELSE "none",
               stack  |-> lev >= b.stack,
               enc    |-> "none"],
              eid)

(***************************************************************************)
(* The process-wide default.                                                *)
(***************************************************************************)
\* New, once Zap has returned z: logger = &baseLogger{l}; return logger
NewOf(h, z) ==
    [heap |-> Append(h, z.l), logger |-> Len(h) + 1, ret |-> Len(h) + 1,
     opts |-> z.opts]

\* New create logger with options and init global logger
New(h, o, e) == NewOf(h, Zap(o, e))

\* The Config literal of newDefaultLogger.
DefaultConfig(e) ==
    [LogDir |-> e, LogFile |-> "", LogLevel |-> <<>>, JsonEncode |-> TRUE,
     StacktraceLevel |-> <<>>, Stdout |-> FALSE, FilePerLevel |-> TRUE]

\* newDefaultLogger if not new a logger, will generate a default logger
newDefaultLogger(h, e) == New(h, DefaultConfig(e), e)

\* defaultLogger, its assignment: logger = newDefaultLogger()
defaultLoggerSet(n) == [heap |-> n.heap, logger |-> n.ret, built |-> TRUE]

\* defaultLogger without the nil check.
defaultLoggerAlways(h, g, e) == defaultLoggerSet(newDefaultLogger(h, e))

\* defaultLogger new default Logger if logger is nil (one caller at a time)
defaultLogger(h, g, e) ==
    IF g = 0
    THEN defaultLoggerSet(newDefaultLogger(h, e))
    ELSE [heap |-> h, logger |-> g, built |-> FALSE]

\* Package-level WithName
WithName(b, name) == baseLogger_AddCallerSkip(baseLogger_WithName(b, name), -1)

\* Package-level WithValues: keysAndValues is passed on as ONE argument.
WithValues(b, keysAndValues) ==
    baseLogger_AddCallerSkip(baseLogger_WithValues(b, <<Slice(keysAndValues)>>), -1)

(***************************************************************************)
(* Inputs.                                                                  *)
(***************************************************************************)
LevelStrings ==
    { <<>>, S_info, <<"W","a","r","n">>, S_warning, <<"E","R","R","O","R">>,
      S_fatal, <<"t","r","a","c","e">> }

Config(dir, level, json, stdout, perLevel) ==
    [LogDir |-> dir, LogFile |-> "app.log", LogLevel |-> level, JsonEncode |-> json,
     StacktraceLevel |-> <<>>, Stdout |-> stdout, FilePerLevel |-> perLevel]

\* The configurations of the routing scenarios: every level string in
\* single-file mode, some in split mode, with and without stdout.
Configs ==
    { Config("/data/logs", lv, TRUE, FALSE, FALSE) : lv \in LevelStrings }
    \cup { Config("", lv, FALSE, TRUE, TRUE) : lv \in {<<>>, S_fatal, S_info} }
    \cup { Config("", S_error, FALSE, TRUE, FALSE) }

\* The configurations of the derivation scenarios.
ApiConfigs ==
    { Config("/data/logs", <<"W","a","r","n">>, TRUE, FALSE, FALSE),
      Config("", <<>>, FALSE, TRUE, TRUE) }

\* The severities of the derivation scenarios.
ApiLevels == {InfoLevel, FatalLevel}

\* The configurations of the stack-trace scenarios: StacktraceLevel unset,
\* set in either case, and unrecognized; LogDir and LogFile set and unset.
WithStacktraceLevel(c, level) == [c EXCEPT !.StacktraceLevel = level]
WithLogFile(c, file) == [c EXCEPT !.LogFile = file]
TraceLevelStrings == { <<>>, S_info, <<"W","A","R","N">>, S_fatal, <<"t","r","a","c","e">> }
TraceConfigs ==
    { WithStacktraceLevel(Config("/data/logs", S_info, TRUE, FALSE, FALSE), lv) :
          lv \in TraceLevelStrings }
    \cup { WithStacktraceLevel(Config("", <<>>, FALSE, TRUE, TRUE), lv) :
               lv \in {<<>>, S_fatal} }
    \cup { WithLogFile(Config("", S_error, TRUE, FALSE, FALSE), ""),
           WithStacktraceLevel(Config("", <<>>, TRUE, FALSE, FALSE), S_debug) }

EnvDirs == {"", "/var/log"}
Names == {"svc"}
Skips == {-1, 1}
KeyValues ==
    { <<Str("k"), Int_("1")>>, <<Str("k")>>, <<Int_("5"), Str("x")>> }
\* The fields of an emission call: none (Debugf .. Fatalf, or no field given),
\* or one zap.Field.
NoFields == { <<>> }
CallFields == { <<>>, <<zapAny("f", Int_("0"))>> }

NoCtx == [kind |-> "none", l |-> 0]
Ctxs ==
    { [kind |-> "nil", l |-> 0], [kind |-> "empty", l |-> 0],
      [kind |-> "other", l |-> 0] }
    \cup { [kind |-> "logger", l |-> i] : i \in DOMAIN heap }

\* How a Logger came to be: the call, its receiver and arguments, the Config
\* its root was built from, and the Logger's value as it was returned.
OriginRec(op, via, parent, args, cfg, born) ==
    [op |-> op, via |-> via, parent |-> parent, args |-> args, cfg |-> cfg,
     born |-> born]
RetRec(op, recv, ctx, id) == [op |-> op, recv |-> recv, ctx |-> ctx, id |-> id]
NoRet == RetRec("none", 0, NoCtx, 0)

(***************************************************************************)
(* The sequential API: one caller, one call at a time.                      *)
(***************************************************************************)
\* The process at its start: no logger built, nothing written.
Fresh ==
    /\ logger = 0
    /\ heap = <<>>
    /\ origin = <<>>
    /\ writes = <<>>
    /\ hist = <<>>
    /\ ret = NoRet
    /\ opts = [called |-> FALSE, before |-> DefaultConfig(""), after |-> DefaultConfig("")]
    /\ newCalled = FALSE
    /\ lastNew = 0
    /\ nDefault = 0
    /\ terminated = FALSE

Init ==
    /\ Fresh
    /\ env \in EnvDirs
    /\ pc = <<>>
    /\ loc = <<>>
    /\ pin = <<>>
    /\ pout = <<>>

Live == ~terminated

\* The caller's part of every package-level function: defaultLogger().
DfltOrigin(d) ==
    IF d.built
    THEN Append(origin, OriginRec("Default", "pkg", 0, <<>>, DefaultConfig(env),
                                  d.heap[d.logger]))
    ELSE origin
DfltCount(d) == IF d.built THEN nDefault + 1 ELSE nDefault

\* The calls made so far that return a new Logger or emit (the model bounds
\* them; building the default inside a package-level call is part of the call).
NCalls ==
    Len(hist) + Cardinality({l \in DOMAIN origin : origin[l].op # "Default"})

\* The state after New returned n for the caller's Config o.
AfterNew(o, n) ==
    /\ heap' = n.heap
    /\ logger' = n.logger
    /\ origin' = Append(origin, OriginRec("New", "pkg", 0, <<>>, o, n.heap[n.ret]))
    /\ opts' = [called |-> TRUE, before |-> o, after |-> n.opts]
    /\ lastNew' = n.ret
    /\ newCalled' = TRUE
    /\ ret' = NoRet
    /\ UNCHANGED <<writes, hist, env, nDefault, terminated, pc, loc, pin, pout>>

\* log.New(&cfg) called by the user
CallNew(configs, maxCalls) ==
    \E o \in configs :
        /\ Live /\ NCalls < maxCalls
        /\ AfterNew(o, New(heap, o, env))

\* The state after defaultLogger() returned d.
AfterDefault(d) ==
    /\ logger' = d.logger
    /\ nDefault' = DfltCount(d)
    /\ UNCHANGED <<opts, env, newCalled, lastNew, pc, loc, pin, pout>>

\* An emission through the Logger object b, whose index is l.
\* n is the number of Logger objects there are when it is made.
Emission(l, b, lev, flds, via, n) ==
    /\ hist' = Append(hist, [lid |-> l, lev |-> lev, via |-> via, flds |-> flds,
                             nheap |-> n])
    /\ writes' = writes \o baseLogger_Emit(b, lev, flds, via, Len(hist) + 1)
    /\ terminated' = (lev = FatalLevel)
    /\ ret' = NoRet

PkgEmitOf(d, lev, flds) ==
    /\ AfterDefault(d)
    /\ heap' = d.heap
    /\ origin' = DfltOrigin(d)
    /\ Emission(d.logger, d.heap[d.logger], lev, flds, "pkg", Len(d.heap))

\* log.Debugf .. log.Fatal
CallPkgEmit(levels, fields, maxCalls) ==
    \E lev \in levels, flds \in fields :
        /\ Live /\ NCalls < maxCalls
        /\ PkgEmitOf(defaultLogger(heap, logger, env), lev, flds)

\* l.Debugf .. l.Fatal on a Logger the user holds
CallMethodEmit(levels, fields, maxCalls) ==
    \E l \in DOMAIN heap, lev \in levels, flds \in fields :
        /\ Live /\ NCalls < maxCalls
        /\ Emission(l, heap[l], lev, flds, "method", Len(heap))
        /\ UNCHANGED <<logger, heap, origin, opts, env, newCalled, lastNew, nDefault,
                       pc, loc, pin, pout>>

\* A derivation through a Logger method: the child is a new object.
MethodDerive(l, op, child, args, maxCalls) ==
    /\ Live /\ NCalls < maxCalls
    /\ heap' = newBaseLogger(heap, l, child)
    /\ origin' = Append(origin, OriginRec(op, "method", l, args, origin[l].cfg, child))
    /\ ret' = NoRet
    /\ UNCHANGED <<logger, writes, hist, opts, env, newCalled, lastNew, nDefault,
                   terminated, pc, loc, pin, pout>>

CallMethodWithName(maxCalls) ==
    \E l \in DOMAIN heap, name \in Names :
        MethodDerive(l, "WithName", baseLogger_WithName(heap[l], name), <<Str(name)>>,
                     maxCalls)

\* A derivation through a package-level function, from defaultLogger().
PkgDerive(d, op, child, args) ==
    /\ Live /\ NCalls < MaxCalls
    /\ AfterDefault(d)
    /\ heap' = newBaseLogger(d.heap, d.logger, child)
    /\ origin' = Append(DfltOrigin(d),
                        OriginRec(op, "pkg", d.logger, args,
                                  DfltOrigin(d)[d.logger].cfg, child))
    /\ ret' = NoRet
    /\ UNCHANGED <<writes, hist, terminated>>

PkgWithNameOf(d, name) ==
    PkgDerive(d, "WithName", WithName(d.heap[d.logger], name), <<Str(name)>>)

PkgWithValuesOf(d, kv) ==
    PkgDerive(d, "WithValues", WithValues(d.heap[d.logger], kv), kv)

\* l.WithContext(ctx)
MethodWithContext ==
    \E l \in DOMAIN heap, ctx \in Ctxs :
        /\ Live
        /\ ret' = RetRec("WithContext", l, ctx, baseLogger_WithContext(l, logger, ctx))
        /\ UNCHANGED <<logger, heap, origin, writes, hist, opts, env, newCalled,
                       lastNew, nDefault, terminated, pc, loc, pin, pout>>

PkgWithContextOf(d, ctx) ==
    /\ AfterDefault(d)
    /\ heap' = d.heap
    /\ origin' = DfltOrigin(d)
    /\ ret' = RetRec("WithContext", 0, ctx,
                     baseLogger_WithContext(d.logger, d.logger, ctx))
    /\ UNCHANGED <<writes, hist, terminated>>

\* log.WithContext(ctx)
PkgWithContext ==
    \E ctx \in Ctxs :
        /\ Live
        /\ PkgWithContextOf(defaultLogger(heap, logger, env), ctx)

(***************************************************************************)
(* Derivation scenarios: New, the derivations and emissions.               *)
(***************************************************************************)
UserNew == CallNew(ApiConfigs, MaxCalls)
PkgEmit == CallPkgEmit(ApiLevels, CallFields, MaxCalls)
MethodEmit == CallMethodEmit(ApiLevels, CallFields, MaxCalls)
MethodWithName == CallMethodWithName(MaxCalls)

MethodWithValues ==
    \E l \in DOMAIN heap, kv \in KeyValues :
        MethodDerive(l, "WithValues", baseLogger_WithValues(heap[l], kv), kv, MaxCalls)

MethodAddCallerSkip ==
    \E l \in DOMAIN heap, k \in Skips :
        MethodDerive(l, "AddCallerSkip", baseLogger_AddCallerSkip(heap[l], k), <<>>,
                     MaxCalls)

PkgWithName ==
    \E name \in Names : PkgWithNameOf(defaultLogger(heap, logger, env), name)

PkgWithValues ==
    \E kv \in KeyValues : PkgWithValuesOf(defaultLogger(heap, logger, env), kv)

Next ==
    \/ UserNew
    \/ PkgEmit
    \/ MethodEmit
    \/ MethodWithName
    \/ MethodWithValues
    \/ MethodAddCallerSkip
    \/ PkgWithName
    \/ PkgWithValues

Spec == Init /\ [][Next]_vars

(***************************************************************************)
(* Routing scenarios: New with every configuration, and emissions at       *)
(* every severity.                                                          *)
(***************************************************************************)
RouteNew == CallNew(Configs, RouteMaxCalls)
RoutePkgEmit == CallPkgEmit(EmitLevels, NoFields, RouteMaxCalls)
RouteMethodEmit == CallMethodEmit(EmitLevels, NoFields, RouteMaxCalls)

NextRoute == RouteNew \/ RoutePkgEmit \/ RouteMethodEmit

SpecRoute == Init /\ [][NextRoute]_vars

(***************************************************************************)
(* Context scenarios: New, a derivation, and WithContext.                  *)
(***************************************************************************)
CtxNew == CallNew(ApiConfigs, CtxMaxCalls)
CtxWithName == CallMethodWithName(CtxMaxCalls)

NextCtx == CtxNew \/ CtxWithName \/ MethodWithContext \/ PkgWithContext

SpecCtx == Init /\ [][NextCtx]_vars

(***************************************************************************)
(* Stack-trace scenarios: New with a StacktraceLevel, a derivation, and    *)
(* emissions at every severity.                                             *)
(***************************************************************************)
TraceNew == CallNew(TraceConfigs, TraceMaxCalls)
TracePkgEmit == CallPkgEmit(EmitLevels, NoFields, TraceMaxCalls)
TraceMethodEmit == CallMethodEmit(EmitLevels, NoFields, TraceMaxCalls)
TraceWithName == CallMethodWithName(TraceMaxCalls)

NextTrace == TraceNew \/ TracePkgEmit \/ TraceMethodEmit \/ TraceWithName

SpecTrace == Init /\ [][NextTrace]_vars

(***************************************************************************)
(* Concurrent first use: NumGoroutines goroutines each call a              *)
(* package-level emission function once, and nobody calls New.  The reads  *)
(* and writes of the variable logger are not synchronised: a read that     *)
(* races with the writes of other goroutines observes the latest write or  *)
(* one it is not ordered after (the initial nil at the nil check, the      *)
(* goroutine's own write later).                                            *)
(***************************************************************************)
Goroutines == 1..NumGoroutines
ConcLevels == {InfoLevel, ErrorLevel}

InitConc ==
    /\ Fresh
    /\ env \in EnvDirs
    /\ pc = [g \in Goroutines |-> "check"]
    /\ loc = [g \in Goroutines |-> 0]
    /\ pin = <<>>
    /\ pout = <<>>

\* The values a read of logger by goroutine g may observe.
ReadsAtCheck == {0, logger}
ReadsAfterWrite(g) == {loc[g], logger}

\* defaultLogger: if logger == nil
ConcCheck(g) ==
    /\ pc[g] = "check"
    /\ \E v \in ReadsAtCheck :
        /\ loc' = [loc EXCEPT ![g] = v]
        /\ pc' = [pc EXCEPT ![g] = IF v = 0 THEN "new" ELSE "emit"]
    /\ UNCHANGED <<logger, heap, origin, writes, hist, ret, opts, env, newCalled,
                   lastNew, nDefault, terminated, pin, pout>>

\* newDefaultLogger, New: l := Zap(opts); logger = &baseLogger{l}
ConcNewOf(g, n) ==
    /\ heap' = n.heap
    /\ logger' = n.logger
    /\ loc' = [loc EXCEPT ![g] = n.ret]
    /\ origin' = Append(origin, OriginRec("Default", "pkg", 0, <<>>, DefaultConfig(env),
                                          n.heap[n.ret]))

ConcNew(g) ==
    /\ pc[g] = "new"
    /\ ConcNewOf(g, newDefaultLogger(heap, env))
    /\ nDefault' = nDefault + 1
    /\ pc' = [pc EXCEPT ![g] = "newret"]
    /\ UNCHANGED <<writes, hist, ret, opts, env, newCalled, lastNew, terminated,
                   pin, pout>>

\* New: return logger
ConcNewReturn(g) ==
    /\ pc[g] = "newret"
    /\ \E v \in ReadsAfterWrite(g) : loc' = [loc EXCEPT ![g] = v]
    /\ pc' = [pc EXCEPT ![g] = "assign"]
    /\ UNCHANGED <<logger, heap, origin, writes, hist, ret, opts, env, newCalled,
                   lastNew, nDefault, terminated, pin, pout>>

\* defaultLogger: logger = newDefaultLogger()
ConcAssign(g) ==
    /\ pc[g] = "assign"
    /\ logger' = loc[g]
    /\ pc' = [pc EXCEPT ![g] = "ret"]
    /\ UNCHANGED <<heap, origin, writes, hist, ret, opts, env, newCalled, lastNew,
                   nDefault, terminated, loc, pin, pout>>

\* defaultLogger: return logger
ConcReturn(g) ==
    /\ pc[g] = "ret"
    /\ \E v \in ReadsAfterWrite(g) : loc' = [loc EXCEPT ![g] = v]
    /\ pc' = [pc EXCEPT ![g] = "emit"]
    /\ UNCHANGED <<logger, heap, origin, writes, hist, ret, opts, env, newCalled,
                   lastNew, nDefault, terminated, pin, pout>>

\* log.Info, log.Error: defaultLogger().Info(msg, fields...)
ConcEmit(g) ==
    /\ pc[g] = "emit"
    /\ \E lev \in ConcLevels, flds \in NoFields :
        Emission(loc[g], heap[loc[g]], lev, flds, "pkg", Len(heap))
    /\ pc' = [pc EXCEPT ![g] = "done"]
    /\ UNCHANGED <<logger, heap, origin, opts, env, newCalled, lastNew, nDefault,
                   loc, pin, pout>>

NextConc ==
    \E g \in Goroutines :
        \/ ConcCheck(g)
        \/ ConcNew(g)
        \/ ConcNewReturn(g)
        \/ ConcAssign(g)
        \/ ConcReturn(g)
        \/ ConcEmit(g)

SpecConc == InitConc /\ [][NextConc]_vars

(***************************************************************************)
(* Key-value coercion on its own: every argument list of up to MaxArgs     *)
(* values.                                                                  *)
(***************************************************************************)
ArgValues == {Str("a"), Str("b"), Int_("1"), Int_("5"), FieldArg("f")}
ArgSeqs == UNION {[1..n -> ArgValues] : n \in 0..MaxArgs}

InitFields ==
    /\ Fresh
    /\ env = ""
    /\ pc = "call"
    /\ loc = <<>>
    /\ pin \in ArgSeqs
    /\ pout = <<>>

CallHandleFields ==
    /\ pc = "call"
    /\ pout' = handleFields(pin, <<>>)
    /\ pc' = "done"
    /\ UNCHANGED <<logger, heap, origin, writes, hist, ret, opts, env, newCalled,
                   lastNew, nDefault, terminated, loc, pin>>

NextFields == CallHandleFields

SpecFields == InitFields /\ [][NextFields]_vars

(***************************************************************************)
(* The claims.                                                              *)
(***************************************************************************)
\* The Config the root of the Logger of emission e was built from, the
\* directory its files are in, and the file-sink writes made for e.
EmissionConfig(e) == origin[hist[e].lid].cfg
EffectiveDir(o) == IF o.LogDir = "" THEN env ELSE o.LogDir
FileWritesOf(e) ==
    {i \in DOMAIN writes : writes[i].eid = e /\ writes[i].sink.kind = "file"}
TierFile(lev) ==
    CASE lev = DebugLevel -> "debug.log"
      [] lev = InfoLevel -> "info.log"
      [] lev = WarnLevel -> "warn.log"
      [] OTHER -> "error.log"

\* C1: with FilePerLevel on, whatever LogLevel is, every emission is written
\* to exactly one file: debug to debug.log, info to info.log, warn to
\* warn.log, error and fatal to error.log, in the configured directory.
C1_OneFilePerEmission ==
    \A e \in DOMAIN hist :
        EmissionConfig(e).FilePerLevel =>
            /\ Cardinality(FileWritesOf(e)) = 1
            /\ \A i \in FileWritesOf(e) :
                  writes[i].sink =
                      FileSink(Join(EffectiveDir(EmissionConfig(e)), TierFile(hist[e].lev)))

\* A debug emission reached debug.log, and only it, under LogLevel "fatal",
\* and a fatal one reached error.log.
C1_Witness ==
    /\ Len(hist) = 2
    /\ hist[1].lev = DebugLevel /\ hist[2].lev = FatalLevel
    /\ \A e \in DOMAIN hist :
          /\ EmissionConfig(e).FilePerLevel
          /\ EmissionConfig(e).LogLevel = S_fatal
          /\ Cardinality(FileWritesOf(e)) = 1
    /\ \E i \in FileWritesOf(1) : writes[i].sink.path = Join(env, "debug.log")
    /\ \E i \in FileWritesOf(2) : writes[i].sink.path = Join(env, "error.log")

\* C2: with FilePerLevel off, an emission is written to the file LogFile of
\* the configured directory when its severity is at or above the severity
\* LogLevel resolves to, once, and is written to no file when it is below.
C2_SingleFileThreshold ==
    \A e \in DOMAIN hist :
        ~EmissionConfig(e).FilePerLevel =>
            IF hist[e].lev >= logLevel(EmissionConfig(e).LogLevel)
            THEN /\ Cardinality(FileWritesOf(e)) = 1
                 /\ \A i \in FileWritesOf(e) :
                       writes[i].sink =
                           FileSink(Join(EffectiveDir(EmissionConfig(e)),
                                         EmissionConfig(e).LogFile))
            ELSE FileWritesOf(e) = {}

\* Under LogLevel "Warn" an info emission left the file alone and an error
\* emission after it was written.
C2_Witness ==
    /\ Len(hist) = 2
    /\ \A e \in DOMAIN hist :
          /\ ~EmissionConfig(e).FilePerLevel
          /\ EmissionConfig(e).LogLevel = <<"W","a","r","n">>
    /\ hist[1].lev = InfoLevel /\ FileWritesOf(1) = {}
    /\ hist[2].lev = ErrorLevel /\ Cardinality(FileWritesOf(2)) = 1

\* C3 (as claimed): every emission of every logger the public API hands out
\* records the user's call site as its caller.
C3_CallerIsCallSite ==
    \A i \in DOMAIN writes : writes[i].rec.caller = "site"

\* The arguments are complete pairs with string keys.
WellFormedPairs(args) ==
    /\ Len(args) % 2 = 0
    /\ \A j \in DOMAIN args : j % 2 = 1 => args[j].t = "string"
PairsOf(args) ==
    [j \in 1..(Len(args) \div 2) |-> [key |-> args[2 * j - 1].v, val |-> args[2 * j]]]

\* C4 (as claimed): a child made by WithValues(k1, v1, ..., kn, vn) with
\* string keys, through the method or the package-level function, carries
\* k1=v1 ... kn=vn, after its parent's fields, on every record it emits.
C4_WithValuesAttaches ==
    \A i \in DOMAIN writes :
        LET e == writes[i].eid
            og == origin[hist[e].lid]
        IN  (og.op = "WithValues" /\ WellFormedPairs(og.args)) =>
                writes[i].rec.fields =
                    heap[og.parent].fields \o PairsOf(og.args) \o hist[e].flds

\* Position j (1-based) holds a complete pair with a string key.
GoodPair(args, j) == 2 * j <= Len(args) /\ args[2 * j - 1].t = "string"
\* The number of pairs of the longest prefix of good pairs.
PrefixPairs(args) ==
    CHOOSE n \in 0..Len(args) :
        /\ \A j \in 1..n : GoodPair(args, j)
        /\ ~GoodPair(args, n + 1)

C6_ConstructedOnce ==
    /\ nDefault <= 1
    /\ \A e \in DOMAIN hist : hist[e].lid = hist[1].lid
    /\ \A g \in DOMAIN pc : pc[g] = "done" => loc[g] = logger

TierEnablers ==
    <<EnablerEq(DebugLevel), EnablerEq(InfoLevel), EnablerEq(WarnLevel),
      EnablerGe(ErrorLevel)>>
TierFiles == <<"debug.log", "info.log", "warn.log", "error.log">>
\* The Logger l is what the built-in default configuration gives: JSON
\* records, one file per severity in the directory LOG_DIR names.
IsBuiltInDefault(h, l) ==
    /\ Len(h[l].cores) = 4
    /\ \A k \in 1..4 :
          /\ h[l].cores[k].enc = "json"
          /\ h[l].cores[k].level = TierEnablers[k]
          /\ h[l].cores[k].sinks = <<FileSink(Join(env, TierFiles[k]))>>
    /\ h[l].name = <<>> /\ h[l].fields = <<>>

C7_Step ==
    /\ nDefault' <= 1
    /\ newCalled => nDefault' = nDefault
    /\ (Len(hist') > Len(hist) /\ hist'[Len(hist')].via = "pkg") =>
          /\ hist'[Len(hist')].lid = logger'
          /\ IF newCalled
             THEN logger' = lastNew /\ logger' = logger
             ELSE /\ nDefault' = 1
                  /\ origin'[logger'].op = "Default"
                  /\ IsBuiltInDefault(heap', logger')
                  /\ logger # 0 => logger' = logger

\* C7: one caller at a time: a package-level emission goes through the
\* process-wide instance, which is the one the most recent New built if New
\* was called, else the one built, once, from the built-in default
\* configuration; the default is never built after New, and at most once.
C7_SingleInstance == [][C7_Step]_vars

\* The default served the first package-level emission, New replaced it,
\* and the second emission went through the instance New built.
C7_Witness ==
    /\ Len(hist) = 2
    /\ hist[1].via = "pkg" /\ hist[2].via = "pkg"
    /\ origin[hist[1].lid].op = "Default"
    /\ newCalled /\ nDefault = 1
    /\ hist[2].lid = lastNew /\ hist[2].lid # hist[1].lid

\* C8: a derivation leaves every existing Logger as it was returned, and
\* every record carries the name, the bound fields and the caller depth its
\* Logger was returned with, whatever was derived from it since.
C8_ParentUnchanged ==
    /\ \A l \in DOMAIN heap : heap[l] = origin[l].born
    /\ \A i \in DOMAIN writes :
          LET e == writes[i].eid
              b == origin[hist[e].lid].born
          IN  /\ writes[i].rec.name = b.name
              /\ writes[i].rec.fields = b.fields \o hist[e].flds
              /\ writes[i].rec.caller = CallerFrame(b.callerSkip, hist[e].via)

\* A parent emitted after a child was derived from it with fields, and its
\* record has none of them.
C8_Witness ==
    \E i \in DOMAIN writes, c \in DOMAIN heap :
        LET e == writes[i].eid
        IN  /\ origin[c].parent = hist[e].lid /\ origin[c].op = "WithValues"
            /\ c <= hist[e].nheap
            /\ heap[c].fields # <<>>
            /\ writes[i].rec.fields = <<>>

\* C9: WithContext returns the Logger the context holds under LoggerKey,
\* and the process-wide instance when the context is nil, has no such key or
\* holds something else there; what it returns is never nil.
C9_WithContext ==
    ret.op = "WithContext" =>
        /\ ret.ctx.kind = "logger" => ret.id = ret.ctx.l
        /\ ret.ctx.kind # "logger" => ret.id = logger
        /\ ret.id \in DOMAIN heap

\* WithContext on a Logger that is not the process-wide one, with a context
\* holding something else under the key, returned the process-wide one.
C9_Witness ==
    /\ ret.op = "WithContext"
    /\ ret.ctx.kind = "other"
    /\ ret.recv # 0 /\ ret.recv # logger
    /\ ret.id = logger

\* The two strings differ at most in the case of their letters.
EqualFold(a, b) ==
    Len(a) = Len(b) /\ \A i \in DOMAIN a : ToLowerChar(a[i]) = ToLowerChar(b[i])
FiveNames ==
    <<[s |-> S_debug, l |-> DebugLevel], [s |-> S_info, l |-> InfoLevel],
      [s |-> S_warn, l |-> WarnLevel], [s |-> S_error, l |-> ErrorLevel],
      [s |-> S_fatal, l |-> FatalLevel]>>
SixNames == Append(FiveNames, [s |-> S_warning, l |-> WarnLevel])

\* The threshold of the single-file Logger l is the level of the name its
\* LogLevel spells, whatever the case, and debug if it spells none of them.
ResolvesBy(names, l) ==
    LET s  == origin[l].cfg.LogLevel
        th == heap[l].cores[1].level
    IN  /\ \A k \in DOMAIN names : EqualFold(s, names[k].s) => th = EnablerGe(names[k].l)
        /\ (\A k \in DOMAIN names : ~EqualFold(s, names[k].s)) => th = EnablerGe(DebugLevel)
\* Every emission through a single-file Logger whose LogLevel spells none of
\* the names is in the file.
UnrecognizedFiltersNothing(names) ==
    \A e \in DOMAIN hist :
        (/\ ~EmissionConfig(e).FilePerLevel
         /\ \A k \in DOMAIN names : ~EqualFold(EmissionConfig(e).LogLevel, names[k].s))
        => FileWritesOf(e) # {}

\* C10 (as claimed): LogLevel resolves, whatever its case, to one of debug,
\* info, warn, error, fatal, and every other string resolves to debug, so
\* that it filters nothing in single-file mode.
C10_FiveNamesOnly ==
    /\ \A l \in DOMAIN heap : ~origin[l].cfg.FilePerLevel => ResolvesBy(FiveNames, l)
    /\ UnrecognizedFiltersNothing(FiveNames)

\* C10 (amended): LogLevel resolves, whatever its case, to one of debug,
\* info, warn (also spelled "warning"), error, fatal, and every other string
\* resolves to debug, so that it filters nothing in single-file mode.
C10_SixNames ==
    /\ \A l \in DOMAIN heap : ~origin[l].cfg.FilePerLevel => ResolvesBy(SixNames, l)
    /\ UnrecognizedFiltersNothing(SixNames)

\* "warning" gave a single-file Logger the threshold warn, and a debug
\* emission is in the file of a Logger configured with "trace".
C10_Witness ==
    /\ \E l \in DOMAIN heap :
          /\ ~origin[l].cfg.FilePerLevel
          /\ origin[l].cfg.LogLevel = S_warning
          /\ heap[l].cores[1].level = EnablerGe(WarnLevel)
    /\ Len(hist) = 1
    /\ ~EmissionConfig(1).FilePerLevel
    /\ EmissionConfig(1).LogLevel = <<"t","r","a","c","e">>
    /\ hist[1].lev = DebugLevel
    /\ FileWritesOf(1) # {}

\* The severity from which records carry a stack under the Config o.
StackThreshold(o) ==
    IF o.StacktraceLevel = <<>> THEN ErrorLevel ELSE logLevel(o.StacktraceLevel)

\* C11: a record carries a captured call stack exactly when its severity is
\* at or above the severity StacktraceLevel resolves to, error when
\* StacktraceLevel is unset.
C11_StackIffAtThreshold ==
    \A i \in DOMAIN writes :
        writes[i].rec.stack <=>
            hist[writes[i].eid].lev >= StackThreshold(EmissionConfig(writes[i].eid))

\* With StacktraceLevel unset, a warn record was written without a stack and
\* an error record after it with one.
C11_Witness ==
    /\ Len(hist) = 2
    /\ hist[1].lev = WarnLevel /\ hist[2].lev = ErrorLevel
    /\ \A e \in DOMAIN hist : EmissionConfig(e).StacktraceLevel = <<>>
    /\ \E i \in DOMAIN writes : writes[i].eid = 1 /\ ~writes[i].rec.stack
    /\ \E i \in DOMAIN writes : writes[i].eid = 2 /\ writes[i].rec.stack

\* C12: New leaves the caller's Config as it was, but for an empty
\* StacktraceLevel, which becomes "error", and an empty LogDir, which becomes
\* the value of LOG_DIR; with LogDir set, the files are under LogDir.
C12_ConfigFrame ==
    opts.called =>
        /\ opts.after =
              [opts.before EXCEPT
                  !.StacktraceLevel = IF @ = <<>> THEN S_error ELSE @,
                  !.LogDir = IF @ = "" THEN env ELSE @]
        /\ opts.before.LogDir # "" =>
              \A k \in DOMAIN heap[lastNew].cores :
                  \A j \in DOMAIN heap[lastNew].cores[k].sinks :
                      heap[lastNew].cores[k].sinks[j].kind = "file" =>
                          Head(heap[lastNew].cores[k].sinks[j].path) = opts.before.LogDir

\* New was given a Config with both unset while LOG_DIR was set, and left it
\* with StacktraceLevel "error" and LogDir the value of LOG_DIR.
C12_Witness ==
    /\ opts.called
    /\ opts.before.StacktraceLevel = <<>> /\ opts.before.LogDir = ""
    /\ env = "/var/log"
    /\ opts.after.StacktraceLevel = S_error /\ opts.after.LogDir = "/var/log"
    /\ opts.after.LogLevel = opts.before.LogLevel

====
